---- MODULE Spec2Model ----
(***************************************************************************)
(* The browser client of the emotion demo, src/frontend/main.js: the       *)
(* WebSocket connection management (connectWebSocket and the handlers it   *)
(* installs on every socket it creates), the reconnect timers, and the     *)
(* face-detection callback that crops the first detection and sends it,    *)
(* rate limited, over the current socket.                                  *)
(*                                                                         *)
(* JavaScript runs one callback at a time to completion, so every handler  *)
(* is one atomic action.  Times are in milliseconds.  Bounding-box         *)
(* fractions are counted in hundredths (33 is 0.33), so a fraction times a *)
(* canvas dimension is counted in hundredths of a pixel.                   *)
(*                                                                         *)
(* Spec is the connection with the detection callback.  The inbound        *)
(* handler (socket.onmessage) writes lastEmotion and the status text only, *)
(* and is composed with the connection in MessageSpec.  ExtractSpec is the *)
(* region extractor on its own, and FailSpec the page in front of a server *)
(* that never accepts a connection.                                        *)
(***************************************************************************)
EXTENDS Integers, Sequences, FiniteSets, TLC

VARIABLES
    started,          \* initializeApp has run and registered the callbacks
    socket,           \* the module-scope `socket`: "null", or the readyState of the WebSocket it refers to
    superseded,       \* how many WebSockets `socket` no longer refers to are in each readyState before CLOSED
    reconnectAttempt, \* main.js:8
    lastSendTime,     \* main.js:13
    lastEmotion,      \* main.js:15
    resultDiv,        \* what resultDiv.innerHTML shows
    timers,           \* due times of the pending setTimeout(connectWebSocket, delay), ascending
    now,              \* the clock Date.now() and the timers read
    resolution,       \* the step in which the clock advances in this run
    last,             \* what the most recent callback did (observation only)
    scheduled,        \* the delays scheduled since the last open event (observation only)
    lastCall,         \* <<time>> of the most recent socket.send call, <<>> if none (observation only)
    lastOk,           \* <<time>> of the most recent socket.send call that returned (observation only)
    box,              \* the detection list the extractor was last applied to (observation only)
    rawRect,          \* the raw rectangle it computed, <<>> if none (observation only)
    roi               \* the rectangle it handed on, or NoRegion (observation only)

vars == <<started, socket, superseded, reconnectAttempt, lastSendTime, lastEmotion,
          resultDiv, timers, now, resolution, last, scheduled,
          lastCall, lastOk, box, rawRect, roi>>

----------------------------------------------------------------------------
(* Program constants *)

maxReconnectAttempts == 5
sendInterval == 200
canvasWidth == 640
canvasHeight == 480

(* Bounds of the model *)

MaxSuperseded == 1   \* superseded WebSockets still waiting for their close event
MaxTimers == 6       \* reconnect timers pending at once
StartClock == 1000   \* Date.now() when the page loads (any value >= sendInterval)
MaxTicks == 2        \* the clock advances this many times
LongStep == 13000    \* a clock step so long that MaxTicks of them outlast the five delays (25000 ms)

\* The clock advances in steps shorter than sendInterval in some runs, and in
\* steps long enough for reconnect timers to come due in others.
Resolutions == {100, 1000}

----------------------------------------------------------------------------
(* JavaScript numbers: a finite value, or a non-finite one (NaN, Infinity, *)
(* what arithmetic makes of undefined).                                    *)

Num(n) == [finite |-> TRUE, n |-> n]
NaN == [finite |-> FALSE, n |-> 0]

Times(a, k) == IF a.finite THEN Num(a.n * k) ELSE NaN

IsFinite(a) == a.finite

\* Math.floor of a value counted in hundredths
Floor(a) == a.n \div 100

Max(a, b) == IF a >= b THEN a ELSE b
Min(a, b) == IF a <= b THEN a ELSE b

----------------------------------------------------------------------------
(* The region extractor, main.js:134-160 *)

NoRegion == [kind |-> "none"]

\* main.js:139-142
RawRect(b) ==
    [x |-> Times(b.width, canvasWidth), y |-> Times(b.height, canvasHeight),
     w |-> Times(b.width, canvasWidth), h |-> Times(b.height, canvasHeight)]

\* A finite check that lets every rectangle through.
AllFiniteUnchecked(raw) == TRUE

\* main.js:146
AllFinite(raw) ==
    IsFinite(raw.x) /\ IsFinite(raw.y) /\ IsFinite(raw.w) /\ IsFinite(raw.h)

\* main.js:152-156
ClampRect(raw) ==
    LET x == Max(0, Floor(raw.x))
        y == Max(0, Floor(raw.y))
    IN  [kind |-> "rect", x |-> x, y |-> y,
         w |-> Max(1, Min(canvasWidth - x, Floor(raw.w))),
         h |-> Max(1, Min(canvasHeight - y, Floor(raw.h)))]

\* The rectangle handed to ctx.getImageData for a detection list, or NoRegion.
ExtractRegion(detections) ==
    IF Len(detections) = 0 THEN NoRegion
    ELSE LET raw == RawRect(detections[1])
         IN  IF ~AllFinite(raw) THEN NoRegion
             ELSE LET r == ClampRect(raw)
                  IN  IF r.w <= 0 \/ r.h <= 0 THEN NoRegion ELSE r

----------------------------------------------------------------------------
(* The connection, main.js:17-74 *)

\* The readyStates in which a WebSocket still has events to deliver.
Pending == {"CONNECTING", "OPEN", "CLOSING"}

NoneSuperseded == [st \in Pending |-> 0]

Count(sup) == sup["CONNECTING"] + sup["OPEN"] + sup["CLOSING"]

\* A guard that forgets the CONNECTING state.
IsLiveOnlyWhenOpen(cur) == cur # "null" /\ cur = "OPEN"

\* A guard that forgets the OPEN state.
IsLiveOnlyWhenConnecting(cur) == cur # "null" /\ cur = "CONNECTING"

\* main.js:18
IsLive(cur) == cur # "null" /\ cur \in {"CONNECTING", "OPEN"}

\* A send gate that checks only that there is a socket.
IsOpenAnySocket(cur) == cur # "null"

\* main.js:174
IsOpen(cur) == cur # "null" /\ cur = "OPEN"

\* main.js:191
IsNullOrClosed(cur) == cur = "null" \/ cur = "CLOSED"

\* The WebSocket `socket` referred to, once `socket` is assigned another: it still
\* delivers events unless it is CLOSED.
Supersede(sup, cur) == IF cur \in Pending THEN [sup EXCEPT ![cur] = @ + 1] ELSE sup

\* connectWebSocket(), main.js:17-23: the socket reference and the superseded
\* sockets it leaves.  The URL is a constant well-formed ws: URL, so the
\* constructor does not throw.
ConnectWebSocket(cur, sup) ==
    IF IsLive(cur)
    THEN [socket |-> cur, superseded |-> sup, made |-> FALSE]
    ELSE [socket |-> "CONNECTING", superseded |-> Supersede(sup, cur), made |-> TRUE]

\* WebSocket.close(): a no-op on a socket that is CLOSING or CLOSED.
SocketClose(cur) == IF cur \in {"CONNECTING", "OPEN"} THEN "CLOSING" ELSE cur

\* A backoff without its cap.
delayUncapped(attempt) == 1000 * 2^attempt

\* A backoff computed from the counter after its increment.
delayAfterIncrement(attempt) == Min(1000 * 2^(attempt + 1), 10000)

\* main.js:35
delay(attempt) == Min(1000 * 2^attempt, 10000)

\* A rate gate that admits every frame.
RateGateAdmitsAll(t, lastSent) == (t - lastSent) >= 0

\* main.js:177
RateGateAdmits(t, lastSent) == (t - lastSent) >= sendInterval

\* The last value of the clock in the model.
Horizon == StartClock + MaxTicks * resolution

\* A timer due after the clock's last value never fires in the model: all such
\* due times are kept as one value.
Due(t) == IF t > Horizon THEN Horizon + 1 ELSE t

\* setTimeout: the due time joins the pending ones, which stay in firing order.
RECURSIVE Schedule(_, _)
Schedule(ts, due) ==
    IF ts = <<>> THEN <<due>>
    ELSE IF due < Head(ts) THEN <<due>> \o ts
    ELSE <<Head(ts)>> \o Schedule(Tail(ts), due)

\* What a callback did: the event, how it ended, the readyState `socket` had when
\* connectWebSocket() was called ("none" if it was not called; "null" for no
\* socket), and whether the call created a WebSocket.
Did(ev, outcome, calledAt, made) ==
    [ev |-> ev, outcome |-> outcome, calledAt |-> calledAt, made |-> made]

\* main.js:196-199: what getImageData, putImageData or toDataURL throws is caught
\* and the frame is skipped.
PixelError == "pixelerror"

----------------------------------------------------------------------------
(* The inbound handler, main.js:54-69 *)

\* What JSON.parse gives and what reading a property of it gives.  A number is
\* counted in hundred-thousandths (50000 is 0.5).
Undefined == [t |-> "undefined"]
JNull == [t |-> "null"]
Str(s) == [t |-> "string", s |-> s]
JNum(a) == [t |-> "number", a |-> a]

\* An object with these properties; a property it lacks reads as Undefined.
Obj(error, emotion, confidence) ==
    [t |-> "object", error |-> error, emotion |-> emotion, confidence |-> confidence]

\* event.data: text JSON.parse rejects, or text it parses to a value.
NotJSON == [json |-> FALSE]
Parsed(value) == [json |-> TRUE, value |-> value]

\* The condition of main.js:59, `if (data.error)`: JavaScript's ToBoolean.
Truthy(v) ==
    CASE v.t = "string" -> v.s # ""
      [] v.t = "number" -> v.a.finite /\ v.a.n # 0
      [] v.t = "object" -> TRUE
      [] OTHER -> FALSE

\* A value inside a template literal, main.js:62
ToText(v) ==
    CASE v.t = "string" -> v.s
      [] v.t = "null" -> "null"
      [] OTHER -> "undefined"

\* A value as an operand of *, main.js:62
ToNumber(v) ==
    CASE v.t = "number" -> v.a
      [] v.t = "null" -> Num(0)
      [] OTHER -> NaN

\* toFixed(1) of a non-negative value counted in hundred-thousandths: the
\* nearest tenth, written with one decimal.
ToFixed1(a) ==
    IF ~a.finite THEN "NaN"
    ELSE LET tenths == (a.n + 5000) \div 10000
         IN  ToString(tenths \div 10) \o "." \o ToString(tenths % 10)

\* main.js:62
Label(data) ==
    ToText(data.emotion) \o " (" \o ToFixed1(Times(ToNumber(data.confidence), 100)) \o "%)"

----------------------------------------------------------------------------
(* Inputs *)

Box(xm, ym, w, h) == [xMin |-> xm, yMin |-> ym, width |-> w, height |-> h]

GoodBox == Box(Num(10), Num(20), Num(33), Num(50))
BadBox == Box(Num(0), Num(0), NaN, Num(50))

\* The detection lists the callback is driven with: no face, one face, two faces.
DetectionLists == {<<>>, <<GoodBox>>, <<BadBox>>, <<GoodBox, BadBox>>, <<BadBox, GoodBox>>}

\* The boxes the extractor alone is applied to.
Origins == {Num(-5), Num(0), Num(33)}
Extents == {NaN, Num(0), Num(33), Num(100), Num(120)}
ExtractBoxes == {Box(xm, ym, w, h) : xm \in Origins, ym \in Origins, w \in Extents, h \in Extents}
ExtractLists == {<<>>} \cup {<<b>> : b \in ExtractBoxes} \cup {<<b, GoodBox>> : b \in ExtractBoxes}

\* The classification messages of the protocol.
Classifications ==
    {Parsed(Obj(Undefined, Str("neutral"), JNum(Num(50000)))),
     Parsed(Obj(Undefined, Str("happy"), JNum(Num(98765))))}

\* Messages with an error property: a text, a text next to a classification,
\* an empty text, and null next to a classification.
ErrorMessages ==
    {Parsed(Obj(Str("boom"), Undefined, Undefined)),
     Parsed(Obj(Str("boom"), Str("happy"), JNum(Num(98765)))),
     Parsed(Obj(Str(""), Undefined, Undefined)),
     Parsed(Obj(JNull, Str("neutral"), JNum(Num(50000))))}

\* The inbound messages: the above, text that is not JSON, and the JSON texts
\* "null" and "{}".
Messages ==
    Classifications \cup ErrorMessages
      \cup {NotJSON, Parsed(JNull), Parsed(Obj(Undefined, Undefined, Undefined))}

\* The WebSocket an event is delivered to: the one `socket` refers to, or a
\* superseded one in the given readyState.
Targets == {"current"} \cup Pending

----------------------------------------------------------------------------
Init ==
    /\ started = FALSE
    /\ socket = "null"
    /\ superseded = NoneSuperseded
    /\ reconnectAttempt = 0
    /\ lastSendTime = 0
    /\ lastEmotion = ""
    /\ resultDiv = "empty"
    /\ timers = <<>>
    /\ now = StartClock
    /\ resolution \in Resolutions
    /\ last = Did("load", "none", "none", FALSE)
    /\ scheduled = <<>>
    /\ lastCall = <<>>
    /\ lastOk = <<>>
    /\ box = <<>>
    /\ rawRect = <<>>
    /\ roi = NoRegion

\* initializeApp, main.js:247-268
InitializeApp(faceDetectionReady) ==
    /\ ~started
    /\ last.ev = "load"
    /\ IF faceDetectionReady
       THEN LET c == ConnectWebSocket(socket, superseded)
            IN  /\ started' = TRUE
                /\ socket' = c.socket
                /\ superseded' = c.superseded
                /\ resultDiv' = resultDiv
                /\ last' = Did("init", "ready", socket, c.made)
       ELSE /\ resultDiv' = "initfailed"
            /\ last' = Did("init", "failed", "none", FALSE)
            /\ UNCHANGED <<started, socket, superseded>>
    /\ UNCHANGED <<reconnectAttempt, lastSendTime, lastEmotion, timers,
                   now, scheduled, lastCall, lastOk, box, rawRect, roi, resolution>>

\* The readyState of the WebSocket an event targets, "none" if there is no such socket.
StateOf(target) ==
    IF target = "current" THEN (IF socket = "null" THEN "none" ELSE socket)
    ELSE IF superseded[target] > 0 THEN target ELSE "none"

\* The sockets once the targeted WebSocket has moved to readyState `to`.
Moved(target, to) ==
    IF target = "current" THEN [socket |-> to, superseded |-> superseded]
    ELSE [socket |-> socket,
          superseded |-> IF to \in Pending
                         THEN [superseded EXCEPT ![target] = @ - 1, ![to] = @ + 1]
                         ELSE [superseded EXCEPT ![target] = @ - 1]]

\* An onopen handler that leaves the retry counter alone.
OnOpenKeepsCount(target) ==
    /\ StateOf(target) = "CONNECTING"
    /\ socket' = Moved(target, "OPEN").socket
    /\ superseded' = Moved(target, "OPEN").superseded
    /\ scheduled' = <<>>
    /\ last' = Did("open", "none", "none", FALSE)
    /\ UNCHANGED <<started, reconnectAttempt, lastSendTime, lastEmotion, resultDiv, timers,
                   now, lastCall, lastOk, box, rawRect, roi, resolution>>

\* socket.onopen, main.js:25-29
OnOpen(target) ==
    /\ StateOf(target) = "CONNECTING"
    /\ socket' = Moved(target, "OPEN").socket
    /\ superseded' = Moved(target, "OPEN").superseded
    /\ reconnectAttempt' = 0
    /\ scheduled' = <<>>
    /\ last' = Did("open", "none", "none", FALSE)
    /\ UNCHANGED <<started, lastSendTime, lastEmotion, resultDiv, timers, now,
                   lastCall, lastOk, box, rawRect, roi, resolution>>

\* An onclose handler that counts the attempt but schedules no reconnect.
OnCloseSchedulesNothing(target) ==
    /\ StateOf(target) \in Pending
    /\ socket' = Moved(target, "CLOSED").socket
    /\ superseded' = Moved(target, "CLOSED").superseded
    /\ IF reconnectAttempt < maxReconnectAttempts
       THEN /\ resultDiv' = "reconnecting"
            /\ reconnectAttempt' = reconnectAttempt + 1
            /\ last' = Did("close", "retry", "none", FALSE)
       ELSE /\ resultDiv' = "fatal"
            /\ last' = Did("close", "fatal", "none", FALSE)
            /\ UNCHANGED reconnectAttempt
    /\ UNCHANGED <<started, timers, scheduled, lastSendTime, lastEmotion, now, lastCall, lastOk,
                   box, rawRect, roi, resolution>>

\* An onclose handler that retries whatever the counter says.
OnCloseAlwaysRetries(target) ==
    /\ StateOf(target) \in Pending
    /\ socket' = Moved(target, "CLOSED").socket
    /\ superseded' = Moved(target, "CLOSED").superseded
    /\ Len(timers) < MaxTimers
    /\ timers' = Schedule(timers, Due(now + delay(reconnectAttempt)))
    /\ scheduled' = Append(scheduled, delay(reconnectAttempt))
    /\ resultDiv' = "reconnecting"
    /\ reconnectAttempt' = reconnectAttempt + 1
    /\ last' = Did("close", "retry", "none", FALSE)
    /\ UNCHANGED <<started, lastSendTime, lastEmotion, now, lastCall, lastOk, box, rawRect, roi,
                   resolution>>

\* socket.onclose, main.js:31-47: the connection failed, the peer or the network
\* closed it, or the close() of main.js:185 completed.
OnClose(target) ==
    /\ StateOf(target) \in Pending
    /\ socket' = Moved(target, "CLOSED").socket
    /\ superseded' = Moved(target, "CLOSED").superseded
    /\ IF reconnectAttempt < maxReconnectAttempts
       THEN /\ Len(timers) < MaxTimers
            /\ timers' = Schedule(timers, Due(now + delay(reconnectAttempt)))
            /\ scheduled' = Append(scheduled, delay(reconnectAttempt))
            /\ resultDiv' = "reconnecting"
            /\ reconnectAttempt' = reconnectAttempt + 1
            /\ last' = Did("close", "retry", "none", FALSE)
       ELSE /\ resultDiv' = "fatal"
            /\ last' = Did("close", "fatal", "none", FALSE)
            /\ UNCHANGED <<timers, scheduled, reconnectAttempt>>
    /\ UNCHANGED <<started, lastSendTime, lastEmotion, now, lastCall, lastOk, box, rawRect, roi, resolution>>

\* A pending setTimeout(connectWebSocket, delay) fires, main.js:38
TimerFire ==
    /\ timers # <<>>
    /\ Head(timers) <= now
    /\ LET c == ConnectWebSocket(socket, superseded)
       IN  /\ Count(c.superseded) <= MaxSuperseded
           /\ socket' = c.socket
           /\ superseded' = c.superseded
           /\ last' = Did("timer", "none", socket, c.made)
    /\ timers' = Tail(timers)
    /\ UNCHANGED <<started, reconnectAttempt, lastSendTime, lastEmotion, resultDiv,
                   now, scheduled, lastCall, lastOk, box, rawRect, roi, resolution>>

\* Time passes.
Tick ==
    /\ now + resolution <= Horizon
    /\ now' = now + resolution
    /\ last' = Did("tick", "none", "none", FALSE)
    /\ UNCHANGED <<started, socket, superseded, reconnectAttempt, lastSendTime,
                   lastEmotion, resultDiv, timers, scheduled, lastCall, lastOk, box, rawRect, roi, resolution>>

\* A callback without the detection check of main.js:134: a frame without a face
\* is sent like any other.
OnResultsWithoutFaceCheck(detections, pixelsThrow, sendThrows) ==
    /\ started
    /\ IF IsOpen(socket) /\ RateGateAdmits(now, lastSendTime)
       THEN /\ lastSendTime' = now
            /\ lastCall' = <<now>>
            /\ lastOk' = <<now>>
            /\ last' = Did("detect", IF lastOk = <<>> THEN "sent" ELSE "sentagain", "none", FALSE)
            /\ UNCHANGED <<socket, superseded>>
       ELSE /\ last' = Did("detect", "notopen", "none", FALSE)
            /\ UNCHANGED <<socket, superseded, lastSendTime, lastCall, lastOk>>
    /\ UNCHANGED <<started, reconnectAttempt, lastEmotion, resultDiv, timers,
                   now, scheduled, box, rawRect, roi, resolution>>

\* The faceDetector.onResults callback, main.js:124-204.  pixelsThrow: getImageData,
\* putImageData or toDataURL throws; sendThrows: socket.send throws.
OnResults(detections, pixelsThrow, sendThrows) ==
    /\ started
    /\ LET r == ExtractRegion(detections)
           quiet(outcome) ==
               /\ last' = Did("detect", outcome, "none", FALSE)
               /\ UNCHANGED <<socket, superseded, lastSendTime, lastCall, lastOk>>
       IN  IF Len(detections) = 0 THEN quiet("noface")
           ELSE IF r = NoRegion THEN quiet("noregion")
           ELSE IF pixelsThrow THEN quiet(PixelError)
           ELSE IF IsOpen(socket)
           THEN IF RateGateAdmits(now, lastSendTime)
                THEN IF sendThrows
                     THEN LET c == ConnectWebSocket(SocketClose(socket), superseded)
                          IN  /\ Count(c.superseded) <= MaxSuperseded
                              /\ socket' = c.socket
                              /\ superseded' = c.superseded
                              /\ lastCall' = <<now>>
                              /\ last' = Did("detect", "sendthrew", SocketClose(socket), c.made)
                              /\ UNCHANGED <<lastSendTime, lastOk>>
                     ELSE /\ lastSendTime' = now
                          /\ lastCall' = <<now>>
                          /\ lastOk' = <<now>>
                          /\ last' = Did("detect", IF lastOk = <<>> THEN "sent" ELSE "sentagain",
                                         "none", FALSE)
                          /\ UNCHANGED <<socket, superseded>>
                ELSE quiet("ratelimited")
           ELSE IF IsNullOrClosed(socket)
                THEN LET c == ConnectWebSocket(socket, superseded)
                     IN  /\ Count(c.superseded) <= MaxSuperseded
                         /\ socket' = c.socket
                         /\ superseded' = c.superseded
                         /\ last' = Did("detect", "notopen", socket, c.made)
                         /\ UNCHANGED <<lastSendTime, lastCall, lastOk>>
                ELSE quiet("notopen")
    /\ UNCHANGED <<started, reconnectAttempt, lastEmotion, resultDiv, timers,
                   now, scheduled, box, rawRect, roi, resolution>>

Next ==
    \/ \E ready \in BOOLEAN : InitializeApp(ready)
    \/ \E target \in Targets : OnOpen(target)
    \/ \E target \in Targets : OnClose(target)
    \/ TimerFire
    \/ Tick
    \/ \E ds \in DetectionLists, pt \in BOOLEAN, st \in BOOLEAN : OnResults(ds, pt, st)

Spec == Init /\ [][Next]_vars

----------------------------------------------------------------------------
(* The region extractor on its own: lines 134-160 applied to one detection list. *)

Extract(detections) ==
    /\ box' = detections
    /\ rawRect' = IF Len(detections) = 0 THEN <<>> ELSE <<RawRect(detections[1])>>
    /\ roi' = ExtractRegion(detections)
    /\ UNCHANGED <<started, socket, superseded, reconnectAttempt, lastSendTime, lastEmotion,
                   resultDiv, timers, now, resolution, last, scheduled, lastCall, lastOk>>

ExtractNext == \E ds \in ExtractLists : Extract(ds)

ExtractSpec == Init /\ [][ExtractNext]_vars

----------------------------------------------------------------------------
(* The inbound handler as an action, and the connection with inbound        *)
(* messages.  Here every detection callback has a face and nothing throws:  *)
(* the callback is what reconnects a closed socket while timers are pending.*)

\* A handler that clears the label when the text does not parse.
OnMessageClearsOnBadText(target, msg) ==
    /\ StateOf(target) = "OPEN"
    /\ IF ~msg.json
       THEN /\ lastEmotion' = ""
            /\ last' = Did("message", "parsefailed", "none", FALSE)
            /\ UNCHANGED resultDiv
       ELSE IF msg.value = JNull
       THEN /\ last' = Did("message", "typeerror", "none", FALSE)
            /\ UNCHANGED <<lastEmotion, resultDiv>>
       ELSE IF Truthy(msg.value.error)
       THEN /\ resultDiv' = "processingerror"
            /\ last' = Did("message", "error", "none", FALSE)
            /\ UNCHANGED lastEmotion
       ELSE /\ lastEmotion' = Label(msg.value)
            /\ resultDiv' = "emotion"
            /\ last' = Did("message", "label", "none", FALSE)
    /\ UNCHANGED <<started, socket, superseded, reconnectAttempt, lastSendTime,
                   timers, now, resolution, scheduled, lastCall, lastOk, box, rawRect, roi>>

\* socket.onmessage, main.js:54-69.  A message event is delivered to a WebSocket
\* that is OPEN.  Whatever the try block throws is caught at main.js:66.
OnMessage(target, msg) ==
    /\ StateOf(target) = "OPEN"
    /\ IF ~msg.json
       THEN /\ last' = Did("message", "parsefailed", "none", FALSE)
            /\ UNCHANGED <<lastEmotion, resultDiv>>
       ELSE IF msg.value = JNull
       THEN /\ last' = Did("message", "typeerror", "none", FALSE)
            /\ UNCHANGED <<lastEmotion, resultDiv>>
       ELSE IF Truthy(msg.value.error)
       THEN /\ resultDiv' = "processingerror"
            /\ last' = Did("message", "error", "none", FALSE)
            /\ UNCHANGED lastEmotion
       ELSE /\ lastEmotion' = Label(msg.value)
            /\ resultDiv' = "emotion"
            /\ last' = Did("message", "label", "none", FALSE)
    /\ UNCHANGED <<started, socket, superseded, reconnectAttempt, lastSendTime,
                   timers, now, resolution, scheduled, lastCall, lastOk, box, rawRect, roi>>

MessageNext ==
    \/ \E ready \in BOOLEAN : InitializeApp(ready)
    \/ \E target \in Targets : OnOpen(target)
    \/ \E target \in Targets : OnClose(target)
    \/ TimerFire
    \/ Tick
    \/ \E target \in Targets, msg \in Messages : OnMessage(target, msg)
    \/ OnResults(<<GoodBox>>, FALSE, FALSE)

MessageSpec == Init /\ [][MessageNext]_vars

----------------------------------------------------------------------------
(* A server that is down: every WebSocket closes without opening, every     *)
(* pending timer fires, and the clock runs far enough for all five delays.  *)

FailInit ==
    /\ started = FALSE
    /\ socket = "null"
    /\ superseded = NoneSuperseded
    /\ reconnectAttempt = 0
    /\ lastSendTime = 0
    /\ lastEmotion = ""
    /\ resultDiv = "empty"
    /\ timers = <<>>
    /\ now = StartClock
    /\ resolution = LongStep
    /\ last = Did("load", "none", "none", FALSE)
    /\ scheduled = <<>>
    /\ lastCall = <<>>
    /\ lastOk = <<>>
    /\ box = <<>>
    /\ rawRect = <<>>
    /\ roi = NoRegion

\* Time passes until the earliest pending timer is due.
TimerDue ==
    /\ timers # <<>>
    /\ Head(timers) > now
    /\ Head(timers) <= Horizon
    /\ now' = Head(timers)
    /\ last' = Did("tick", "none", "none", FALSE)
    /\ UNCHANGED <<started, socket, superseded, reconnectAttempt, lastSendTime, lastEmotion,
                   resultDiv, timers, scheduled, lastCall, lastOk, box, rawRect, roi, resolution>>

FailNext ==
    \/ \E ready \in BOOLEAN : InitializeApp(ready)
    \/ \E target \in Targets : OnClose(target)
    \/ TimerFire
    \/ TimerDue
    \/ \E ds \in DetectionLists, pt \in BOOLEAN, st \in BOOLEAN : OnResults(ds, pt, st)

\* Every WebSocket delivers its close event, time passes, and a due timer fires.
\* The detection callback is driven from outside and has no fairness.
FailFairness ==
    /\ WF_vars(\E target \in Targets : OnClose(target))
    /\ WF_vars(TimerDue)
    /\ WF_vars(TimerFire)

FailSpec == FailInit /\ [][FailNext]_vars /\ FailFairness

----------------------------------------------------------------------------
(* Properties *)

\* The delays of the reconnect policy, attempt 0 first.
Backoff == <<1000, 2000, 4000, 8000, 10000>>

\* C1: once a close has been handled with the retry budget used up (the page
\* shows the fatal status), no callback creates a WebSocket.
C1_NoLinkAfterFailure == [][resultDiv = "fatal" => ~last'.made]_vars

\* C2: the delays scheduled since the last open (or since the start) are the
\* first ones of 1000, 2000, 4000, 8000, 10000: min(1000 * 2^attempt, 10000) for
\* attempt 0, 1, ..., never decreasing and never above 10000.
C2_BackoffDelays ==
    /\ Len(scheduled) <= Len(Backoff)
    /\ \A k \in 1..Len(scheduled) :
        /\ scheduled[k] = Backoff[k]
        /\ scheduled[k] <= 10000
        /\ k > 1 => scheduled[k - 1] <= scheduled[k]

\* C2 witness: five closes in a row without an open, each with its delay scheduled.
C2_Witness == /\ scheduled = Backoff
              /\ last.ev = "close"

\* How a dispatch cycle whose socket.send call returned ended: the first such
\* call of the run, or a later one.
Sends == {"sent", "sentagain"}

C4_ConnectIdempotent ==
    [][last'.calledAt \in {"CONNECTING", "OPEN"}
         => /\ ~last'.made
            /\ socket' = socket
            /\ superseded' = superseded
            /\ reconnectAttempt' = reconnectAttempt]_vars

\* C4 witness: a reconnect timer fired while the current socket was live.
C4_Witness ==
    /\ last.ev = "timer"
    /\ last.calledAt \in {"CONNECTING", "OPEN"}
    /\ socket = last.calledAt

\* C5: a dispatch cycle in which socket.send throws opens no new link itself;
\* the new link is left to the reconnect policy.
C5_SendErrorLeavesReconnectToPolicy ==
    [][(last'.ev = "detect" /\ last'.outcome = "sendthrew") => ~last'.made]_vars

\* C6: every rectangle the extractor hands to getImageData lies within the
\* canvas and is at least 1 by 1.
C6_RegionWithinCanvas ==
    roi # NoRegion
      => /\ roi.x >= 0 /\ roi.y >= 0
         /\ roi.w >= 1 /\ roi.h >= 1
         /\ roi.x + roi.w <= 640
         /\ roi.y + roi.h <= 480

\* C7: the raw rectangle is the first detection's box scaled by the canvas
\* dimensions, its origin taken from xMin and yMin.
C7_RawFromBox ==
    rawRect # <<>>
      => /\ rawRect[1].x = Times(box[1].xMin, 640)
         /\ rawRect[1].y = Times(box[1].yMin, 480)
         /\ rawRect[1].w = Times(box[1].width, 640)
         /\ rawRect[1].h = Times(box[1].height, 480)

\* C8: a dispatch cycle that finds the current socket not OPEN calls
\* socket.send on nothing, lets no exception escape and leaves lastSendTime alone.
C8_NotOpenNoSend ==
    [][(last'.ev = "detect" /\ socket # "OPEN")
         => /\ last'.outcome \notin Sends \cup {"sendthrew", "uncaught"}
            /\ lastSendTime' = lastSendTime
            /\ lastCall' = lastCall
            /\ lastOk' = lastOk]_vars

\* C8 witness: a cycle with a face ran while a reconnect was pending and the
\* socket was not OPEN.
C8_Witness ==
    /\ last.ev = "detect" /\ last.outcome = "notopen"
    /\ timers # <<>>
    /\ resultDiv = "reconnecting"

\* C9: a close handled with reconnectAttempt < 5 schedules exactly one
\* connectWebSocket, after the delay of the counter's value before the
\* increment, and adds exactly 1 to the counter.
C9_CloseSchedulesOne ==
    [][(last'.ev = "close" /\ reconnectAttempt < 5)
         => /\ Len(timers') = Len(timers) + 1
            /\ timers' = Schedule(timers, Due(now + Backoff[reconnectAttempt + 1]))
            /\ scheduled' = Append(scheduled, Backoff[reconnectAttempt + 1])
            /\ reconnectAttempt' = reconnectAttempt + 1]_vars

\* C9 witness: a close was handled with the counter at 3, which is now 4.
C9_Witness ==
    /\ last.ev = "close" /\ last.outcome = "retry"
    /\ reconnectAttempt = 4

\* C10: an open event sets the counter to 0, and the first close handled after
\* it is retried after delay(0) = 1000 ms and leaves the counter at 1.
C10_OpenResets ==
    [][/\ last'.ev = "open" => reconnectAttempt' = 0
       /\ (last'.ev = "close" /\ scheduled = <<>>)
            => /\ last'.outcome = "retry"
               /\ scheduled' = <<1000>>
               /\ reconnectAttempt' = 1]_vars

\* C10 witness: a socket opened after earlier closes (their timers are still
\* pending) and then closed: the backoff started again at 1000.
C10_Witness ==
    /\ last.ev = "close"
    /\ scheduled = <<1000>>
    /\ Len(timers) >= 3

\* C11: a detection callback whose result has no detections calls socket.send
\* on nothing, creates no WebSocket and leaves lastSendTime, the socket
\* reference, the superseded sockets and reconnectAttempt as they were,
\* whatever the state of the socket and of the rate gate.  Stated as: a step
\* of the detection callback that does not leave all this alone is not such a
\* callback.
C11_NoFaceNoEffect ==
    [][\/ last'.ev # "detect"
       \/ /\ lastSendTime' = lastSendTime
          /\ lastCall' = lastCall
          /\ lastOk' = lastOk
          /\ socket' = socket
          /\ superseded' = superseded
          /\ reconnectAttempt' = reconnectAttempt
          /\ ~last'.made
       \/ ~(\E pt \in BOOLEAN, st \in BOOLEAN : OnResults(<<>>, pt, st))]_vars

\* C11 witness: a callback without a face ran while the socket was OPEN and
\* the rate gate would have admitted a frame.
C11_Witness ==
    /\ last.ev = "detect" /\ last.outcome = "noface"
    /\ socket = "OPEN"
    /\ RateGateAdmits(now, lastSendTime)

\* C12: handling a message whose text is not JSON leaves lastEmotion, the
\* status text, the socket reference, the superseded sockets, reconnectAttempt
\* and the pending reconnect timers as they were, and the parse error is
\* caught inside the handler.
C12_BadTextNoEffect ==
    [][(\E t \in Targets : OnMessage(t, NotJSON))
         => /\ lastEmotion' = lastEmotion
            /\ resultDiv' = resultDiv
            /\ socket' = socket
            /\ superseded' = superseded
            /\ reconnectAttempt' = reconnectAttempt
            /\ timers' = timers
            /\ last'.outcome = "parsefailed"]_vars

\* C12 witness: text that is not JSON arrived while a label was shown and a
\* reconnect timer of an earlier close was pending.
C12_Witness ==
    /\ last.ev = "message" /\ last.outcome = "parsefailed"
    /\ lastEmotion # ""
    /\ timers # <<>>

\* C13: handling a parsed message that has an error property, whatever its
\* value, leaves lastEmotion, the socket reference, the superseded sockets,
\* reconnectAttempt and the pending reconnect timers as they were.
C13_ErrorMessageKeepsLabel ==
    [][(\E t \in Targets, m \in ErrorMessages : OnMessage(t, m))
         => /\ lastEmotion' = lastEmotion
            /\ socket' = socket
            /\ superseded' = superseded
            /\ reconnectAttempt' = reconnectAttempt
            /\ timers' = timers]_vars

\* C14: the classification {neutral, 0.5} sets lastEmotion to "neutral (50.0%)"
\* and {happy, 0.98765} to "happy (98.8%)", and no other step changes
\* lastEmotion: it is always the label of the latest classification message.
C14_LabelOfLatestClassification ==
    [][/\ (\E t \in Targets :
              OnMessage(t, Parsed(Obj(Undefined, Str("neutral"), JNum(Num(50000))))))
            => lastEmotion' = "neutral (50.0%)"
       /\ (\E t \in Targets :
              OnMessage(t, Parsed(Obj(Undefined, Str("happy"), JNum(Num(98765))))))
            => lastEmotion' = "happy (98.8%)"
       /\ ~(\E t \in Targets, m \in Classifications : OnMessage(t, m))
            => lastEmotion' = lastEmotion]_vars

\* C14 witness: the classification {neutral, 0.5} was handled and its label
\* is what the page shows.
C14_Witness ==
    /\ last.ev = "message" /\ last.outcome = "label"
    /\ lastEmotion = "neutral (50.0%)"
    /\ resultDiv = "emotion"

\* C15: after a close was handled with the counter below 5 (the page shows the
\* reconnecting status and the socket is CLOSED), no WebSocket is created while
\* none of the pending reconnect timers is due yet: the timer scheduled for
\* that close is among them.
C15_ReconnectOnlyByBackoff ==
    [][(/\ resultDiv = "reconnecting"
        /\ socket = "CLOSED"
        /\ timers # <<>>
        /\ Head(timers) > now) => ~last'.made]_vars

\* C16: at most maxReconnectAttempts reconnect timers are pending.
C16_PendingTimersBounded == Len(timers) <= 5

\* The detection lists whose first box gives a raw coordinate that is not finite.
NonFiniteLists == {<<BadBox>>, <<BadBox, GoodBox>>}

\* C17: a detection callback whose first box has a non-finite raw coordinate,
\* or in which getImageData, putImageData or toDataURL throws, calls
\* socket.send on nothing, creates no WebSocket, leaves lastSendTime, the
\* socket reference, the superseded sockets and reconnectAttempt as they
\* were, and leaves the callback registered for the next frame (what is
\* thrown is caught at main.js:196).  Stated as: a step of the detection
\* callback that does not leave all this alone is not such a callback
\* (socket.send is not reached in such a cycle, so it does not throw).
C17_FailedExtractionNoEffect ==
    [][\/ last'.ev # "detect"
       \/ /\ lastSendTime' = lastSendTime
          /\ lastCall' = lastCall
          /\ lastOk' = lastOk
          /\ socket' = socket
          /\ superseded' = superseded
          /\ reconnectAttempt' = reconnectAttempt
          /\ ~last'.made
          /\ started' = started
       \/ ~(\/ \E ds \in NonFiniteLists : OnResults(ds, FALSE, FALSE)
            \/ \E ds \in DetectionLists \ {<<>>} : OnResults(ds, TRUE, FALSE))]_vars

\* C17 witness: a frame was skipped for a failed extraction while the socket
\* was OPEN and the rate gate would have admitted it, after an earlier frame
\* had been sent.
C17_Witness ==
    /\ last.ev = "detect" /\ last.outcome \in {"noregion", "pixelerror"}
    /\ socket = "OPEN"
    /\ RateGateAdmits(now, lastSendTime)
    /\ lastOk # <<>>

\* C18: when no WebSocket ever opens, every one closes and every pending timer
\* fires, then once the page has started a close is eventually handled with
\* the retry budget used up and the page shows the fatal status (which only
\* such a close sets).
C18_EventuallyFatal ==
    started ~> (resultDiv = "fatal" /\ reconnectAttempt = maxReconnectAttempts)

\* C18 witness: the fatal close came after all five delays had run out, one
\* timer after the other: 25000 ms after the first close.
C18_Witness ==
    /\ last.ev = "close" /\ last.outcome = "fatal"
    /\ scheduled = Backoff
    /\ reconnectAttempt = 5
    /\ timers = <<>>
    /\ now = StartClock + 25000

\* C19: of the WebSockets connectWebSocket has created, at most one is
\* CONNECTING or OPEN, and it is the one `socket` refers to: every superseded
\* WebSocket is CLOSING or CLOSED.
C19_OneLiveSocket ==
    /\ superseded["CONNECTING"] = 0
    /\ superseded["OPEN"] = 0
    /\ (IF socket \in {"CONNECTING", "OPEN"} THEN 1 ELSE 0)
         + superseded["CONNECTING"] + superseded["OPEN"] <= 1

\* C19 witness: after a send threw, the socket it was called on is CLOSING and
\* superseded while its successor is OPEN, with a reconnect timer pending.
C19_Witness ==
    /\ superseded["CLOSING"] = 1
    /\ socket = "OPEN"
    /\ timers # <<>>
    /\ lastCall # <<>>

\* C20: reconnectAttempt is never below 0 nor above maxReconnectAttempts.
C20_AttemptInRange == reconnectAttempt >= 0 /\ reconnectAttempt <= 5

\* C20 witness: with the counter at 5, the close events of a superseded
\* WebSocket (a send threw and none ever returned) and of the current one have
\* both been handled, the last one with the budget used up.
C20_Witness ==
    /\ reconnectAttempt = 5
    /\ last.ev = "close" /\ last.outcome = "fatal"
    /\ lastCall # <<>> /\ lastOk = <<>>
    /\ Count(superseded) = 0
    /\ socket = "CLOSED"

====
